---- MODULE Spec2Model ----
(***************************************************************************)
(* Freebox dashboard back end: the capability detector                     *)
(* (services/modelDetection.ts), the hardware-family table                 *)
(* (types/capabilities.ts) and the authentication session manager          *)
(* (services/freeboxApi.ts).                                               *)
(*                                                                         *)
(* The server is one Node.js process.  Code between two awaits runs        *)
(* atomically; every await is a point where another request handler or     *)
(* another continuation may run.  Each action below is one such atomic     *)
(* segment.                                                                *)
(***************************************************************************)
EXTENDS Integers, Sequences, FiniteSets, TLC

\* ------------------------------------------------------------------------
\* Bounds of the model
\* ------------------------------------------------------------------------
\* concurrent callers of the capability detector (each makes one call)
NumCallers == 3
\* the clock runs from 0 to MaxTime, in minutes
MaxTime == 6

\* ------------------------------------------------------------------------
\* Optional values: null is the empty tuple, a value v is <<v>>
\* ------------------------------------------------------------------------
None == <<>>
Some(v) == <<v>>
IsSome(o) == o # <<>>
Get(o) == o[1]

\* ------------------------------------------------------------------------
\* Strings as sequences of characters
\* ------------------------------------------------------------------------
UpperChars == <<"A","B","C","D","E","F","G","H","I","J","K","L","M",
                "N","O","P","Q","R","S","T","U","V","W","X","Y","Z">>
LowerChars == <<"a","b","c","d","e","f","g","h","i","j","k","l","m",
                "n","o","p","q","r","s","t","u","v","w","x","y","z">>

toLowerChar(ch) ==
  IF \E i \in 1..Len(UpperChars) : UpperChars[i] = ch
  THEN LowerChars[CHOOSE i \in 1..Len(UpperChars) : UpperChars[i] = ch]
  ELSE ch

\* String.prototype.toLowerCase
toLowerCase(s) == [i \in 1..Len(s) |-> toLowerChar(s[i])]

\* String.prototype.includes
includes(s, sub) ==
  \E i \in 0..(Len(s) - Len(sub)) :
    \A j \in 1..Len(sub) : s[i + j] = sub[j]

\* ------------------------------------------------------------------------
\* types/capabilities.ts
\* ------------------------------------------------------------------------
FreeboxModel == {"ultra", "delta", "pop", "revolution", "unknown"}

LegacyTemperatureFields == <<"temp_cpum", "temp_sw", "temp_cpub">>

MODEL_CAPABILITIES ==
  [m \in FreeboxModel |->
    CASE m = "ultra" ->
           [model |-> "ultra", wifi6ghz |-> TRUE, wifi7 |-> TRUE,
            vmSupport |-> "full", maxVms |-> 10, maxVmRam |-> 16,
            temperatureType |-> "quad_core",
            temperatureFields |-> <<"temp_cpu0", "temp_cpu1", "temp_cpu2", "temp_cpu3">>,
            hasInternalStorage |-> FALSE, maxEthernetSpeed |-> 10000,
            maxDownloadSpeed |-> 8000, maxUploadSpeed |-> 8000]
      [] m = "delta" ->
           [model |-> "delta", wifi6ghz |-> TRUE, wifi7 |-> FALSE,
            vmSupport |-> "limited", maxVms |-> 3, maxVmRam |-> 16,
            temperatureType |-> "legacy",
            temperatureFields |-> LegacyTemperatureFields,
            hasInternalStorage |-> TRUE, maxEthernetSpeed |-> 10000,
            maxDownloadSpeed |-> 8000, maxUploadSpeed |-> 700]
      [] m = "pop" ->
           [model |-> "pop", wifi6ghz |-> FALSE, wifi7 |-> TRUE,
            vmSupport |-> "none", maxVms |-> 0, maxVmRam |-> 0,
            temperatureType |-> "legacy",
            temperatureFields |-> LegacyTemperatureFields,
            hasInternalStorage |-> FALSE, maxEthernetSpeed |-> 2500,
            maxDownloadSpeed |-> 5000, maxUploadSpeed |-> 700]
      [] m = "revolution" ->
           [model |-> "revolution", wifi6ghz |-> FALSE, wifi7 |-> FALSE,
            vmSupport |-> "none", maxVms |-> 0, maxVmRam |-> 0,
            temperatureType |-> "legacy",
            temperatureFields |-> LegacyTemperatureFields,
            hasInternalStorage |-> TRUE, maxEthernetSpeed |-> 1000,
            maxDownloadSpeed |-> 1000, maxUploadSpeed |-> 600]
      [] OTHER ->
           [model |-> "unknown", wifi6ghz |-> FALSE, wifi7 |-> FALSE,
            vmSupport |-> "none", maxVms |-> 0, maxVmRam |-> 0,
            temperatureType |-> "legacy",
            temperatureFields |-> LegacyTemperatureFields,
            hasInternalStorage |-> FALSE, maxEthernetSpeed |-> 1000,
            maxDownloadSpeed |-> 1000, maxUploadSpeed |-> 600]]

\* the accented e of "revolution" in French is one character
EAcute == "e_acute"

\* detectModelFromName() that tests the Delta markers before the Pop marker
detectModelFromName_DeltaFirst(modelName) ==
  LET lower == toLowerCase(modelName) IN
  IF includes(lower, <<"v","9">>) \/ includes(lower, <<"u","l","t","r","a">>)
    THEN "ultra"
  ELSE IF \/ includes(lower, <<"v","8">>)
          \/ includes(lower, <<"d","e","l","t","a">>)
          \/ includes(lower, <<"f","b","x","g","w","8">>)
    THEN "delta"
  ELSE IF includes(lower, <<"p","o","p">>)
    THEN "pop"
  ELSE IF \/ includes(lower, <<"v","6">>)
          \/ includes(lower, <<"r","e","v","o","l","u","t","i","o","n">>)
          \/ includes(lower, <<"f","b","x","g","w","1">>)
          \/ includes(lower, <<"v","7">>)
          \/ includes(lower, <<"m","i","n","i">>)
          \/ includes(lower, <<"f","b","x","g","w","7">>)
    THEN "revolution"
  ELSE "unknown"

detectModelFromName(modelName) ==
  LET lower == toLowerCase(modelName) IN
  IF includes(lower, <<"v","9">>) \/ includes(lower, <<"u","l","t","r","a">>)
    THEN "ultra"
  ELSE IF includes(lower, <<"p","o","p">>)
    THEN "pop"
  ELSE IF \/ includes(lower, <<"v","8">>)
          \/ includes(lower, <<"d","e","l","t","a">>)
          \/ includes(lower, <<"f","b","x","g","w","8">>)
    THEN "delta"
  ELSE IF \/ includes(lower, <<"v","6">>)
          \/ includes(lower, <<"r","e","v","o","l","u","t","i","o","n">>)
          \/ includes(lower, <<"r",EAcute,"v","o","l","u","t","i","o","n">>)
          \/ includes(lower, <<"f","b","x","g","w","1">>)
    THEN "revolution"
  ELSE IF \/ includes(lower, <<"v","7">>)
          \/ includes(lower, <<"m","i","n","i">>)
          \/ includes(lower, <<"f","b","x","g","w","7">>)
    THEN "revolution"
  ELSE "unknown"

\* buildCapabilities() without the override of hasInternalStorage
buildCapabilities_TableStorage(model, modelName, boxFlavor, obj) ==
  [obj |-> obj,
   model |-> MODEL_CAPABILITIES[model].model,
   wifi6ghz |-> MODEL_CAPABILITIES[model].wifi6ghz,
   wifi7 |-> MODEL_CAPABILITIES[model].wifi7,
   vmSupport |-> MODEL_CAPABILITIES[model].vmSupport,
   maxVms |-> MODEL_CAPABILITIES[model].maxVms,
   maxVmRam |-> MODEL_CAPABILITIES[model].maxVmRam,
   temperatureType |-> MODEL_CAPABILITIES[model].temperatureType,
   temperatureFields |-> MODEL_CAPABILITIES[model].temperatureFields,
   maxEthernetSpeed |-> MODEL_CAPABILITIES[model].maxEthernetSpeed,
   maxDownloadSpeed |-> MODEL_CAPABILITIES[model].maxDownloadSpeed,
   maxUploadSpeed |-> MODEL_CAPABILITIES[model].maxUploadSpeed,
   modelName |-> modelName,
   boxFlavor |-> boxFlavor,
   hasInternalStorage |-> MODEL_CAPABILITIES[model].hasInternalStorage]

\* obj is the identity of the object the call creates: two records are the
\* same object only if they carry the same obj
buildCapabilities(model, modelName, boxFlavor, obj) ==
  [obj |-> obj,
   model |-> MODEL_CAPABILITIES[model].model,
   wifi6ghz |-> MODEL_CAPABILITIES[model].wifi6ghz,
   wifi7 |-> MODEL_CAPABILITIES[model].wifi7,
   vmSupport |-> MODEL_CAPABILITIES[model].vmSupport,
   maxVms |-> MODEL_CAPABILITIES[model].maxVms,
   maxVmRam |-> MODEL_CAPABILITIES[model].maxVmRam,
   temperatureType |-> MODEL_CAPABILITIES[model].temperatureType,
   temperatureFields |-> MODEL_CAPABILITIES[model].temperatureFields,
   maxEthernetSpeed |-> MODEL_CAPABILITIES[model].maxEthernetSpeed,
   maxDownloadSpeed |-> MODEL_CAPABILITIES[model].maxDownloadSpeed,
   maxUploadSpeed |-> MODEL_CAPABILITIES[model].maxUploadSpeed,
   modelName |-> modelName,
   boxFlavor |-> boxFlavor,
   hasInternalStorage |-> (boxFlavor = "full")]

\* ------------------------------------------------------------------------
\* services/modelDetection.ts
\* ------------------------------------------------------------------------
StrFreebox == <<"F","r","e","e","b","o","x">>
StrFreeboxPop == <<"F","r","e","e","b","o","x"," ","P","o","p">>
StrFreeboxV9 == <<"F","r","e","e","b","o","x"," ","v","9"," ","(","r","1",")">>
StrFreeboxV8 == <<"F","r","e","e","b","o","x"," ","v","8"," ","(","D","e","l","t","a",")">>
StrFreeboxV6 == <<"F","r","e","e","b","o","x"," ","v","6"," ","(","R","e","v","o","l","u","t","i","o","n",")">>
StrUnknown == <<"U","n","k","n","o","w","n">>
StrFbxgw8Pop == <<"f","b","x","g","w","8","-","p","o","p">>

MOCK_MODEL_NAMES ==
  [m \in FreeboxModel |->
    CASE m = "ultra" -> [name |-> StrFreeboxV9, flavor |-> "full"]
      [] m = "delta" -> [name |-> StrFreeboxV8, flavor |-> "full"]
      [] m = "pop" -> [name |-> StrFreeboxPop, flavor |-> "light"]
      [] m = "revolution" -> [name |-> StrFreeboxV6, flavor |-> "full"]
      [] OTHER -> [name |-> StrFreebox, flavor |-> "light"]]

\* 5 * 60 * 1000 ms, in minutes (the unit of the model's clock)
CACHE_DURATION == 5

\* What freeboxApi.getApiVersion() can resolve to.  ok = FALSE is its catch
\* branch (network error, timeout, body that is not JSON).  isNull is a JSON
\* body "null".  An absent field and an empty string are both the empty
\* sequence: the code treats them alike (||).  NotAString is a JSON number or
\* object where the name is expected: toLowerCase() is then not a function.
NotAString == <<"not a string">>

ApiVersionResults ==
  { [ok |-> TRUE, isNull |-> FALSE, box_model_name |-> NotAString, box_model |-> <<>>,
     device_name |-> <<>>, box_flavor |-> "light"],
    [ok |-> FALSE, isNull |-> FALSE, box_model_name |-> <<>>, box_model |-> <<>>,
     device_name |-> <<>>, box_flavor |-> "absent"],
    [ok |-> TRUE, isNull |-> TRUE, box_model_name |-> <<>>, box_model |-> <<>>,
     device_name |-> <<>>, box_flavor |-> "absent"],
    [ok |-> TRUE, isNull |-> FALSE, box_model_name |-> <<>>, box_model |-> <<>>,
     device_name |-> <<>>, box_flavor |-> "absent"],
    [ok |-> TRUE, isNull |-> FALSE, box_model_name |-> StrFreeboxPop, box_model |-> StrFbxgw8Pop,
     device_name |-> <<>>, box_flavor |-> "light"],
    [ok |-> TRUE, isNull |-> FALSE, box_model_name |-> <<>>, box_model |-> <<>>,
     device_name |-> StrFreeboxV9, box_flavor |-> "full"] }

\* process.env.MOCK_FREEBOX_MODEL?.toLowerCase(), "" when the variable is unset
MockSettings == FreeboxModel \cup {""}

DCallers == 1..NumCallers

VARIABLES
  \* ModelDetectionService
  capabilities,        \* None or Some(record)
  detectionPromise,    \* 0 (null) or the number of the detection whose promise it is
  lastDetectionTime,
  \* environment of the detector
  mockModel,           \* the MOCK_FREEBOX_MODEL setting of this process
  now,                 \* Date.now(), in minutes
  dets,                \* dets[d]: the run of _performDetection() started by caller d
  \* callers of the detector
  dpc, dop, dprom, dres,
  coldBatch            \* callers that called detectModel() on the cold cache,
                       \* before any detection had resolved

detVars == <<capabilities, detectionPromise, lastDetectionTime, mockModel, now,
             dets, dpc, dop, dprom, dres, coldBatch>>


\* the callers are numbered in the order of their calls
nextCaller(c) == dpc[c] = "idle" /\ \A k \in 1..(c - 1) : dpc[k] # "idle"

DetInit ==
  /\ capabilities = None
  /\ detectionPromise = 0
  /\ lastDetectionTime = 0
  /\ mockModel \in MockSettings
  /\ now = 0
  /\ dets = [d \in DCallers |-> [state |-> "unused", result |-> None]]
  /\ dpc = [c \in DCallers |-> "idle"]
  /\ dop = [c \in DCallers |-> "none"]
  /\ dprom = [c \in DCallers |-> 0]
  /\ dres = [c \in DCallers |-> None]
  /\ coldBatch = {}

\* buildDefaultCapabilities(), the record it builds
buildDefaultCapabilities(obj) == buildCapabilities("unknown", StrFreebox, "light", obj)

\* _performDetection() from lines 100-108: the record built from a version response
capabilitiesFromVersion(v, obj) ==
  LET modelName == IF v.box_model_name # <<>> THEN v.box_model_name
                   ELSE IF v.box_model # <<>> THEN v.box_model
                   ELSE IF v.device_name # <<>> THEN v.device_name
                   ELSE StrUnknown
      boxFlavor == IF v.box_flavor = "full" THEN "full" ELSE "light"
  IN buildCapabilities(detectModelFromName(modelName), modelName, boxFlavor, obj)

\* the name _performDetection() passes to detectModelFromName()
modelNameOf(v) ==
  IF v.box_model_name # <<>> THEN v.box_model_name
  ELSE IF v.box_model # <<>> THEN v.box_model
  ELSE IF v.device_name # <<>> THEN v.device_name
  ELSE StrUnknown

\* the detection ends in buildDefaultCapabilities(): the version query
\* failed or has no body, or the try block threw
detectionFails(v) == ~v.ok \/ v.isNull \/ modelNameOf(v) = NotAString

\* the record _performDetection() stores and returns on its live branch
detectionResult(v, obj) ==
  IF detectionFails(v)
  THEN buildDefaultCapabilities(obj)
  ELSE capabilitiesFromVersion(v, obj)

\* the mock branch is taken
mockActive == mockModel # "" /\ mockModel \in DOMAIN MOCK_MODEL_NAMES

\* _performDetection(), its synchronous part, run for caller c on a detector
\* whose cache fields are caps and last: the mock branch completes at once,
\* the live branch issues getApiVersion() and suspends
performDetectionStart(c, caps, last) ==
  IF mockActive
  THEN /\ capabilities' = Some(buildCapabilities(mockModel, MOCK_MODEL_NAMES[mockModel].name,
                                                 MOCK_MODEL_NAMES[mockModel].flavor, c))
       /\ lastDetectionTime' = now
       /\ dets' = [dets EXCEPT ![c] = [state |-> "resolved", result |-> capabilities']]
  ELSE /\ capabilities' = caps
       /\ lastDetectionTime' = last
       /\ dets' = [dets EXCEPT ![c] = [state |-> "fetching", result |-> None]]

\* detectModel() without the check of the in-flight marker
detectModelFrom_NoShare(c, caps, prom, last) ==
  IF IsSome(caps) /\ now - last < CACHE_DURATION
  THEN /\ dpc' = [dpc EXCEPT ![c] = "done"]
       /\ dres' = [dres EXCEPT ![c] = caps]
       /\ dprom' = dprom
       /\ capabilities' = caps
       /\ detectionPromise' = prom
       /\ lastDetectionTime' = last
       /\ UNCHANGED dets
  ELSE /\ detectionPromise' = c
       /\ dpc' = [dpc EXCEPT ![c] = "awaitOwn"]
       /\ dprom' = [dprom EXCEPT ![c] = c]
       /\ dres' = dres
       /\ performDetectionStart(c, caps, last)

\* detectModel() whose cache check ignores the age of the record
detectModelFrom_NeverExpires(c, caps, prom, last) ==
  IF IsSome(caps)
  THEN /\ dpc' = [dpc EXCEPT ![c] = "done"]
       /\ dres' = [dres EXCEPT ![c] = caps]
       /\ dprom' = dprom
       /\ capabilities' = caps
       /\ detectionPromise' = prom
       /\ lastDetectionTime' = last
       /\ UNCHANGED dets
  ELSE IF prom # 0
  THEN /\ dpc' = [dpc EXCEPT ![c] = "awaitShared"]
       /\ dprom' = [dprom EXCEPT ![c] = prom]
       /\ dres' = dres
       /\ capabilities' = caps
       /\ detectionPromise' = prom
       /\ lastDetectionTime' = last
       /\ UNCHANGED dets
  ELSE /\ detectionPromise' = c
       /\ dpc' = [dpc EXCEPT ![c] = "awaitOwn"]
       /\ dprom' = [dprom EXCEPT ![c] = c]
       /\ dres' = dres
       /\ performDetectionStart(c, caps, last)

\* detectModel() up to its first await, on a detector whose cache fields are
\* caps, prom and last
detectModelFrom(c, caps, prom, last) ==
  IF IsSome(caps) /\ now - last < CACHE_DURATION
  THEN /\ dpc' = [dpc EXCEPT ![c] = "done"]
       /\ dres' = [dres EXCEPT ![c] = caps]
       /\ dprom' = dprom
       /\ capabilities' = caps
       /\ detectionPromise' = prom
       /\ lastDetectionTime' = last
       /\ UNCHANGED dets
  ELSE IF prom # 0
  THEN /\ dpc' = [dpc EXCEPT ![c] = "awaitShared"]
       /\ dprom' = [dprom EXCEPT ![c] = prom]
       /\ dres' = dres
       /\ capabilities' = caps
       /\ detectionPromise' = prom
       /\ lastDetectionTime' = last
       /\ UNCHANGED dets
  ELSE /\ detectionPromise' = c
       /\ dpc' = [dpc EXCEPT ![c] = "awaitOwn"]
       /\ dprom' = [dprom EXCEPT ![c] = c]
       /\ dres' = dres
       /\ performDetectionStart(c, caps, last)

anyResolved == \E d \in DCallers : dets[d].state = "resolved"

\* a request handler calls detectModel()
detectModel(c) ==
  /\ nextCaller(c)
  /\ dop' = [dop EXCEPT ![c] = "detectModel"]
  /\ detectModelFrom(c, capabilities, detectionPromise, lastDetectionTime)
  /\ coldBatch' = IF capabilities = None /\ ~anyResolved
                  THEN coldBatch \cup {c} ELSE coldBatch
  /\ UNCHANGED <<mockModel, now>>

\* clearCache()
clearCache(c) ==
  /\ nextCaller(c)
  /\ dop' = [dop EXCEPT ![c] = "clearCache"]
  /\ capabilities' = None
  /\ detectionPromise' = 0
  /\ lastDetectionTime' = 0
  /\ dpc' = [dpc EXCEPT ![c] = "done"]
  /\ UNCHANGED <<mockModel, now, dets, dprom, dres, coldBatch>>

\* refreshCapabilities() that leaves the cache as it is
refreshCapabilities_NoClear(c) ==
  /\ nextCaller(c)
  /\ dop' = [dop EXCEPT ![c] = "refreshCapabilities"]
  /\ detectModelFrom(c, capabilities, detectionPromise, lastDetectionTime)
  /\ UNCHANGED <<mockModel, now, coldBatch>>

\* refreshCapabilities(): clearCache(), then detectModel() on the cleared cache
refreshCapabilities(c) ==
  /\ nextCaller(c)
  /\ dop' = [dop EXCEPT ![c] = "refreshCapabilities"]
  /\ detectModelFrom(c, None, 0, 0)
  /\ UNCHANGED <<mockModel, now, coldBatch>>

\* _performDetection() that lets a failure through: its promise rejects and
\* nothing is stored
performDetectionFinish_Rejects(d, v) ==
  /\ dets[d].state = "fetching"
  /\ capabilities' = IF detectionFails(v) THEN capabilities ELSE Some(detectionResult(v, d))
  /\ lastDetectionTime' = IF detectionFails(v) THEN lastDetectionTime ELSE now
  /\ dets' = [dets EXCEPT ![d] = [state |-> "resolved",
                                  result |-> IF detectionFails(v) THEN None ELSE capabilities']]
  /\ UNCHANGED <<detectionPromise, mockModel, now, dpc, dop, dprom, dres, coldBatch>>

\* getApiVersion() of detection d resolves to v and _performDetection() runs
\* to its end
performDetectionFinish(d, v) ==
  /\ dets[d].state = "fetching"
  /\ capabilities' = Some(detectionResult(v, d))
  /\ lastDetectionTime' = now
  /\ dets' = [dets EXCEPT ![d] = [state |-> "resolved", result |-> capabilities']]
  /\ UNCHANGED <<detectionPromise, mockModel, now, dpc, dop, dprom, dres, coldBatch>>

\* detectModel() after its await: the caller that started the detection gets
\* the result and the finally block resets the in-flight marker
detectModelResume(c) ==
  /\ dpc[c] = "awaitOwn"
  /\ dets[dprom[c]].state = "resolved"
  /\ dres' = [dres EXCEPT ![c] = dets[dprom[c]].result]
  /\ detectionPromise' = 0
  /\ dpc' = [dpc EXCEPT ![c] = "done"]
  /\ UNCHANGED <<capabilities, lastDetectionTime, mockModel, now, dets, dop, dprom, coldBatch>>

\* a caller that was handed the in-flight promise gets its result
sharedPromiseResolves(c) ==
  /\ dpc[c] = "awaitShared"
  /\ dets[dprom[c]].state = "resolved"
  /\ dres' = [dres EXCEPT ![c] = dets[dprom[c]].result]
  /\ dpc' = [dpc EXCEPT ![c] = "done"]
  /\ UNCHANGED <<capabilities, detectionPromise, lastDetectionTime, mockModel, now,
                 dets, dop, dprom, coldBatch>>

\* A minute passes.  The continuation of an await on a promise that is
\* resolved runs in the same turn of the event loop, before the clock moves;
\* a getApiVersion() that has not resolved can take any time (its timer is
\* cleared before the body is read).
Tick ==
  /\ now < MaxTime
  /\ \A c \in DCallers :
       dpc[c] \in {"awaitOwn", "awaitShared"} => dets[dprom[c]].state # "resolved"
  /\ now' = now + 1
  /\ UNCHANGED <<capabilities, detectionPromise, lastDetectionTime, mockModel,
                 dets, dpc, dop, dprom, dres, coldBatch>>

DetNext ==
  \/ \E c \in DCallers : detectModel(c)
  \/ \E c \in DCallers : clearCache(c)
  \/ \E c \in DCallers : refreshCapabilities(c)
  \/ \E d \in DCallers, v \in ApiVersionResults : performDetectionFinish(d, v)
  \/ \E c \in DCallers : detectModelResume(c)
  \/ \E c \in DCallers : sharedPromiseResolves(c)

\* ------------------------------------------------------------------------
\* services/freeboxApi.ts: values
\* ------------------------------------------------------------------------
\* concurrent request handlers that use the session manager
NumProcs == 2
\* registrations the appliance accepts
MaxRegs == 1
\* challenges the appliance issues
MaxChallenges == 2
\* sessions the appliance opens
MaxSessions == 2

\* null is None; undefined is a value of its own
Undefined == <<"undefined">>
\* JavaScript truthiness of a token, a challenge or a field read from JSON
Truthy(v) == v # None /\ v # Undefined

AppTokenOf(k) == <<"app_token", k>>
SessionTokenOf(s) == <<"session_token", s>>
ChallengeOf(n) == <<"challenge", n>>

\* Record<string, boolean> as the set of the names that are true.  The
\* permissions of the application are edited on the appliance from time to
\* time: the session opened s-th is granted permissionsGranted(s).
permissionsGranted(s) == IF s % 2 = 1 THEN {"settings"} ELSE {"settings", "vm"}

\* crypto.createHmac('sha1', key).update(challenge).digest('hex')
hmacSha1(key, msg) == <<"hmac_sha1", key, msg>>

\* --- the token file --------------------------------------------------------
\* JSON.stringify({ appToken }, null, 2): a property that is undefined is left out
stringify(appTokenValue) ==
  IF appTokenValue = Undefined
  THEN <<"{", "}">>
  ELSE <<"{", "appToken", ":", appTokenValue, "}">>

\* JSON.parse followed by the read of data.appToken: "throw" when the text is
\* not JSON or the document is null (the property read throws)
parseAppToken(text) ==
  IF Len(text) = 5 /\ text[1] = "{" /\ text[2] = "appToken" /\ text[3] = ":" /\ text[5] = "}"
    THEN [threw |-> FALSE, appToken |-> text[4]]
  ELSE IF text = <<"{", "}">>
    THEN [threw |-> FALSE, appToken |-> Undefined]
  ELSE [threw |-> TRUE, appToken |-> Undefined]

NoFile == [exists |-> FALSE, text |-> <<>>]
FileWith(text) == [exists |-> TRUE, text |-> text]

\* loadToken(): the value of this.appToken after it, cur being its value before
loadToken(file, cur) ==
  IF file.exists
  THEN IF parseAppToken(file.text).threw THEN cur ELSE parseAppToken(file.text).appToken
  ELSE cur

\* the files a process can find at start-up
InitialFiles ==
  { NoFile, FileWith(<<"{", "\"appTok">>), FileWith(<<"{", "}">>),
    FileWith(stringify(AppTokenOf(0))) }

\* --- requests and responses ------------------------------------------------
Request(endpoint, authenticated, auth, password, trackId) ==
  [endpoint |-> endpoint, authenticated |-> authenticated, auth |-> auth,
   password |-> password, trackId |-> trackId]

\* what request() resolves to: the appliance's JSON envelope, or the result
\* built by request() itself (error_code request_failed / invalid_response)
Response(success, error_code) ==
  [success |-> success, error_code |-> error_code, hasResult |-> success,
   status |-> "", logged_in |-> FALSE, challenge |-> None, session_token |-> None,
   permissions |-> {}, app_token |-> None, track_id |-> 0]

Ret(op, ok) ==
  [op |-> op, ok |-> ok, error |-> "", bool |-> FALSE, status |-> "",
   trackId |-> 0, token |-> None, permissions |-> {}, nreq |-> 0]

IdleProc == [pc |-> "idle", req |-> None, resp |-> None, fetched |-> None,
             nreq |-> 0, ret |-> Ret("none", TRUE)]

AProcs == 1..NumProcs
RegIds == 0..MaxRegs
SessionIds == 1..MaxSessions

VARIABLES
  \* FreeboxApiService
  appToken, sessionToken, challenge, permissions,
  tokenFile,      \* the file at config.freebox.tokenFile
  box,            \* the appliance
  proc,           \* the request handlers: where each is in the method it runs
  persisted,      \* the token returned by the last register(), if it succeeded,
                  \* and whether the process restarted since
  e2e             \* progress of the end-to-end scenario

authVars == <<appToken, sessionToken, challenge, permissions, tokenFile, box, proc, persisted>>

VARIABLES
  pin,            \* the argument of a function applied on its own
  pout            \* its result, None before the application

pureVars == <<pin, pout>>

VARIABLES
  reqs,           \* calls of request() followed through their awaits
  rnow            \* the clock of the timers, in units of config.freebox.requestTimeout / 2

reqVars == <<reqs, rnow>>

VARIABLES
  authStore,      \* the state of useAuthStore
  capStore,       \* the capabilities held by useCapabilitiesStore
  pending,        \* calls of the store awaiting the server, and timers set
  invoked         \* how many times the UI has invoked register() or
                  \* checkRegistrationStatus()

storeVars == <<authStore, capStore, pending, invoked>>

vars == <<detVars, authVars, e2e, pureVars, reqVars, storeVars>>

\* the appliance at start: registration 0 was granted in an earlier life of
\* the dashboard, the others are not issued yet
BoxInit ==
  [status |-> [k \in RegIds |-> IF k = 0 THEN "granted" ELSE "none"],
   challenge |-> 1,
   sessions |-> {},
   nsess |-> 0]

\* the state after the constructor
AuthInit ==
  /\ tokenFile \in InitialFiles
  /\ appToken = loadToken(tokenFile, None)
  /\ sessionToken = None
  /\ challenge = None
  /\ permissions = {}
  /\ box = BoxInit
  /\ proc = [p \in AProcs |-> IdleProc]
  /\ persisted = [token |-> None, restarted |-> FALSE]

\* isRegistered(), isLoggedIn(), getPermissions()
isRegistered == appToken # None
isLoggedIn == sessionToken # None
getPermissions == permissions

\* ------------------------------------------------------------------------
\* services/freeboxApi.ts: methods
\* ------------------------------------------------------------------------
\* request(): the part before the fetch.  The session header is attached
\* when authenticated is set and a session token is held.
requestSent(pr, endpoint, authenticated, password, trackId, pc) ==
  [pr EXCEPT !.pc = pc,
             !.req = Some(Request(endpoint, authenticated,
                                  IF authenticated /\ Truthy(sessionToken)
                                  THEN sessionToken ELSE None,
                                  password, trackId)),
             !.resp = None,
             !.nreq = @ + 1]

\* a method has started: its request count starts at zero
started(pr) == [pr EXCEPT !.nreq = 0, !.fetched = None]

\* a method returns or throws: the handler holds its result
finished(pr, ret) ==
  [pr EXCEPT !.pc = "done", !.req = None, !.resp = None, !.fetched = None,
             !.ret = [ret EXCEPT !.nreq = pr.nreq]]

\* !response.success || !response.result
failed(r) == ~r.success \/ ~r.hasResult

\* What the request() awaited by handler p can resolve to: the appliance's
\* answer once it has arrived, or the result of the catch block
\* (request_failed: fetch rejected, or aborted by the timeout, also after the
\* appliance has handled the request) or of the content-type check
\* (invalid_response).
requestResults(p) ==
  (IF proc[p].resp # None THEN {Get(proc[p].resp)} ELSE {})
    \cup {Response(FALSE, "request_failed"), Response(FALSE, "invalid_response")}

awaits(p, pc) == proc[p].pc = pc /\ proc[p].req # None

\* register(), up to the await
registerCall(p) ==
  /\ proc[p].pc = "idle"
  /\ proc' = [proc EXCEPT ![p] = requestSent(started(@), "authorize", FALSE, None, 0, "register")]
  /\ UNCHANGED <<appToken, sessionToken, challenge, permissions, tokenFile, box, persisted>>

\* saveToken() without the write: the token is kept in memory only
saveToken_MemoryOnly(tok, written, truncated) ==
  /\ tokenFile' = tokenFile
  /\ appToken' = IF written THEN tok ELSE appToken

\* saveToken(): fs.writeFileSync, then the assignment.  written is FALSE when
\* mkdirSync or writeFileSync throws; the file is then left as it was or
\* truncated.
saveToken(tok, written, truncated) ==
  IF written
  THEN /\ tokenFile' = FileWith(stringify(tok))
       /\ appToken' = tok
  ELSE /\ tokenFile' = IF truncated THEN FileWith(<<>>) ELSE tokenFile
       /\ appToken' = appToken

\* register(), after the await
registerReturns(p) ==
  /\ awaits(p, "register")
  /\ \E r \in requestResults(p) :
     IF failed(r)
     THEN /\ proc' = [proc EXCEPT ![p] = finished(@, [Ret("register", FALSE) EXCEPT !.error = r.error_code])]
          /\ UNCHANGED <<appToken, tokenFile, persisted>>
     ELSE \E written \in BOOLEAN, truncated \in BOOLEAN :
          /\ (written => ~truncated)
          /\ saveToken(r.app_token, written, truncated)
          /\ proc' = [proc EXCEPT ![p] =
                finished(@, IF written
                            THEN [Ret("register", TRUE) EXCEPT !.trackId = r.track_id,
                                                               !.token = r.app_token]
                            ELSE [Ret("register", FALSE) EXCEPT !.error = "write_failed"])]
          /\ persisted' = IF written
                          THEN [token |-> r.app_token, restarted |-> FALSE]
                          ELSE [token |-> None, restarted |-> FALSE]
  /\ UNCHANGED <<sessionToken, challenge, permissions, box>>

\* checkRegistrationStatus(trackId), up to the await
checkRegistrationStatusCall(p, trackId) ==
  /\ proc[p].pc = "idle"
  /\ proc' = [proc EXCEPT ![p] = requestSent(started(@), "authorize_track", FALSE, None, trackId, "status")]
  /\ UNCHANGED <<appToken, sessionToken, challenge, permissions, tokenFile, box, persisted>>

\* checkRegistrationStatus(trackId), after the await
checkRegistrationStatusReturns(p) ==
  /\ awaits(p, "status")
  /\ \E r \in requestResults(p) :
     IF failed(r)
     THEN /\ proc' = [proc EXCEPT ![p] = finished(@, [Ret("status", FALSE) EXCEPT !.error = r.error_code])]
          /\ UNCHANGED challenge
     ELSE /\ challenge' = IF Truthy(r.challenge) THEN r.challenge ELSE challenge
          /\ proc' = [proc EXCEPT ![p] =
                finished(@, [Ret("status", TRUE) EXCEPT !.status = r.status,
                                                        !.trackId = Get(proc[p].req).trackId])]
  /\ UNCHANGED <<appToken, sessionToken, permissions, tokenFile, box, persisted>>

\* login() without its first check
loginCall_NoTokenCheck(p) ==
  /\ proc[p].pc = "idle"
  /\ proc' = [proc EXCEPT ![p] = requestSent(started(@), "login", FALSE, None, 0, "getChallenge")]
  /\ UNCHANGED <<appToken, sessionToken, challenge, permissions, tokenFile, box, persisted>>

\* login(), up to the await inside getChallenge()
loginCall(p) ==
  /\ proc[p].pc = "idle"
  /\ IF ~Truthy(appToken)
     THEN proc' = [proc EXCEPT ![p] = finished(started(@), [Ret("login", FALSE) EXCEPT !.error = "no_app_token"])]
     ELSE proc' = [proc EXCEPT ![p] = requestSent(started(@), "login", FALSE, None, 0, "getChallenge")]
  /\ UNCHANGED <<appToken, sessionToken, challenge, permissions, tokenFile, box, persisted>>

\* getChallenge(), after its await: it stores the challenge and returns it;
\* login() resumes in a later turn
getChallengeReturns(p) ==
  /\ awaits(p, "getChallenge")
  /\ \E r \in requestResults(p) :
     IF failed(r)
     THEN /\ proc' = [proc EXCEPT ![p] = finished(@, [Ret("login", FALSE) EXCEPT !.error = r.error_code])]
          /\ UNCHANGED challenge
     ELSE /\ challenge' = r.challenge
          /\ proc' = [proc EXCEPT ![p] = [@ EXCEPT !.pc = "login", !.req = None, !.resp = None,
                                                   !.fetched = r.challenge]]
  /\ UNCHANGED <<appToken, sessionToken, permissions, tokenFile, box, persisted>>

\* computePassword(this.challenge)
computePassword(ch) == hmacSha1(appToken, ch)

\* login(), from the return of getChallenge() to the await of the session POST
loginResumes(p) ==
  /\ proc[p].pc = "login"
  /\ IF ~Truthy(challenge)
     THEN proc' = [proc EXCEPT ![p] = finished(@, [Ret("login", FALSE) EXCEPT !.error = "no_challenge"])]
     ELSE IF ~Truthy(appToken)
     THEN proc' = [proc EXCEPT ![p] = finished(@, [Ret("login", FALSE) EXCEPT !.error = "no_app_token"])]
     ELSE proc' = [proc EXCEPT ![p] =
             [requestSent(@, "session", FALSE, computePassword(challenge), 0, "openSession")
                EXCEPT !.fetched = proc[p].fetched]]
  /\ UNCHANGED <<appToken, sessionToken, challenge, permissions, tokenFile, box, persisted>>

\* login() that stores the session token but not the permissions
loginReturns_KeepsPermissions(p) ==
  /\ awaits(p, "openSession")
  /\ \E r \in requestResults(p) :
     IF failed(r)
     THEN /\ proc' = [proc EXCEPT ![p] = finished(@, [Ret("login", FALSE) EXCEPT !.error = r.error_code])]
          /\ UNCHANGED <<sessionToken, challenge, permissions>>
     ELSE /\ sessionToken' = r.session_token
          /\ challenge' = r.challenge
          /\ permissions' = permissions
          /\ proc' = [proc EXCEPT ![p] =
                finished(@, [Ret("login", TRUE) EXCEPT !.token = r.session_token,
                                                       !.permissions = r.permissions])]
  /\ UNCHANGED <<appToken, tokenFile, box, persisted>>

\* login(), after the await of the session POST
loginReturns(p) ==
  /\ awaits(p, "openSession")
  /\ \E r \in requestResults(p) :
     IF failed(r)
     THEN /\ proc' = [proc EXCEPT ![p] = finished(@, [Ret("login", FALSE) EXCEPT !.error = r.error_code])]
          /\ UNCHANGED <<sessionToken, challenge, permissions>>
     ELSE /\ sessionToken' = r.session_token
          /\ challenge' = r.challenge
          /\ permissions' = r.permissions
          /\ proc' = [proc EXCEPT ![p] =
                finished(@, [Ret("login", TRUE) EXCEPT !.token = r.session_token,
                                                       !.permissions = r.permissions])]
  /\ UNCHANGED <<appToken, tokenFile, box, persisted>>

\* logout(), up to the await
logoutCall(p) ==
  /\ proc[p].pc = "idle"
  /\ IF Truthy(sessionToken)
     THEN proc' = [proc EXCEPT ![p] = requestSent(started(@), "logout", TRUE, None, 0, "logout")]
     ELSE proc' = [proc EXCEPT ![p] = finished(started(@), Ret("logout", TRUE))]
  /\ UNCHANGED <<appToken, sessionToken, challenge, permissions, tokenFile, box, persisted>>

\* logout() that forgets the session only when the appliance closed it
logoutReturns_OnSuccess(p) ==
  /\ awaits(p, "logout")
  /\ \E r \in requestResults(p) :
       sessionToken' = IF r.success THEN None ELSE sessionToken
  /\ proc' = [proc EXCEPT ![p] = finished(@, Ret("logout", TRUE))]
  /\ UNCHANGED <<appToken, challenge, permissions, tokenFile, box, persisted>>

\* logout(), after the await
logoutReturns(p) ==
  /\ awaits(p, "logout")
  /\ sessionToken' = None
  /\ proc' = [proc EXCEPT ![p] = finished(@, Ret("logout", TRUE))]
  /\ UNCHANGED <<appToken, challenge, permissions, tokenFile, box, persisted>>

\* checkSession(), up to the await
checkSessionCall(p) ==
  /\ proc[p].pc = "idle"
  /\ proc' = [proc EXCEPT ![p] = requestSent(started(@), "login", TRUE, None, 0, "checkSession")]
  /\ UNCHANGED <<appToken, sessionToken, challenge, permissions, tokenFile, box, persisted>>

\* checkSession() that returns response.success alone
checkSessionReturns_SuccessOnly(p) ==
  /\ awaits(p, "checkSession")
  /\ \E r \in requestResults(p) :
     proc' = [proc EXCEPT ![p] =
        finished(@, [Ret("checkSession", TRUE) EXCEPT !.bool = r.success,
                                                      !.error = r.error_code])]
  /\ UNCHANGED <<appToken, sessionToken, challenge, permissions, tokenFile, box, persisted>>

\* checkSession(), after the await.  It returns the boolean; the error code
\* of the exchange is kept beside it for the observers.
checkSessionReturns(p) ==
  /\ awaits(p, "checkSession")
  /\ \E r \in requestResults(p) :
     proc' = [proc EXCEPT ![p] =
        finished(@, [Ret("checkSession", TRUE) EXCEPT !.bool = (r.success /\ r.logged_in),
                                                      !.error = r.error_code])]
  /\ UNCHANGED <<appToken, sessionToken, challenge, permissions, tokenFile, box, persisted>>

\* getSystemInfo(), an authenticated call through request(), up to the await
getSystemInfoCall(p) ==
  /\ proc[p].pc = "idle"
  /\ proc' = [proc EXCEPT ![p] = requestSent(started(@), "system", TRUE, None, 0, "getSystemInfo")]
  /\ UNCHANGED <<appToken, sessionToken, challenge, permissions, tokenFile, box, persisted>>

\* getSystemInfo(), after the await: the result of request() is returned as it is
getSystemInfoReturns(p) ==
  /\ awaits(p, "getSystemInfo")
  /\ \E r \in requestResults(p) :
     proc' = [proc EXCEPT ![p] =
        finished(@, [Ret("getSystemInfo", r.success) EXCEPT !.error = r.error_code])]
  /\ UNCHANGED <<appToken, sessionToken, challenge, permissions, tokenFile, box, persisted>>

\* the route handler answers the dashboard and ends
handlerEnds(p) ==
  /\ proc[p].pc = "done"
  /\ proc' = [proc EXCEPT ![p] = IdleProc]
  /\ UNCHANGED <<appToken, sessionToken, challenge, permissions, tokenFile, box, persisted>>

\* the process is restarted: memory is lost, the constructor runs again
Restart ==
  /\ appToken' = loadToken(tokenFile, None)
  /\ sessionToken' = None
  /\ challenge' = None
  /\ permissions' = {}
  /\ proc' = [p \in AProcs |-> IdleProc]
  /\ persisted' = [persisted EXCEPT !.restarted = (persisted.token # None)]
  /\ UNCHANGED <<tokenFile, box>>

\* ------------------------------------------------------------------------
\* The appliance and the network
\* ------------------------------------------------------------------------
validSession(auth) == \E s \in box.sessions : auth = SessionTokenOf(s)

\* the password opens a session: it is the HMAC of the current challenge
\* under the token of a granted registration
validPassword(password) ==
  \E k \in RegIds : /\ box.status[k] = "granted"
                    /\ password = hmacSha1(AppTokenOf(k), ChallengeOf(box.challenge))

answered(p, r) == proc' = [proc EXCEPT ![p] = [@ EXCEPT !.resp = Some(r)]]

\* the appliance handles the request of handler p and its answer arrives
boxServe(p) ==
  /\ proc[p].req # None /\ proc[p].resp = None
  /\ LET q == Get(proc[p].req) IN
     CASE q.endpoint = "authorize" ->
            /\ \E k \in RegIds : box.status[k] = "none"
            /\ LET k == CHOOSE k \in RegIds : box.status[k] = "none" /\
                          \A j \in RegIds : box.status[j] = "none" => k <= j
               IN /\ box' = [box EXCEPT !.status[k] = "pending"]
                  /\ answered(p, [Response(TRUE, "") EXCEPT !.app_token = AppTokenOf(k),
                                                            !.track_id = k])
       [] q.endpoint = "authorize_track" ->
            /\ box' = box
            /\ answered(p, [Response(TRUE, "") EXCEPT
                              !.status = IF q.trackId \in RegIds /\ box.status[q.trackId] # "none"
                                         THEN box.status[q.trackId] ELSE "unknown",
                              !.challenge = ChallengeOf(box.challenge)])
       [] q.endpoint = "login" ->
            /\ box' = box
            /\ answered(p, [Response(TRUE, "") EXCEPT !.logged_in = validSession(q.auth),
                                                      !.challenge = ChallengeOf(box.challenge)])
       [] q.endpoint = "session" ->
            IF validPassword(q.password)
            THEN /\ box.nsess < MaxSessions
                 /\ LET s == box.nsess + 1 IN
                    /\ box' = [box EXCEPT !.nsess = s, !.sessions = @ \cup {s}]
                    /\ answered(p, [Response(TRUE, "") EXCEPT
                                      !.session_token = SessionTokenOf(s),
                                      !.challenge = ChallengeOf(box.challenge),
                                      !.permissions = permissionsGranted(s)])
            ELSE /\ box' = box
                 /\ answered(p, Response(FALSE, "invalid_token"))
       [] q.endpoint = "logout" ->
            IF validSession(q.auth)
            THEN /\ box' = [box EXCEPT !.sessions = {s \in @ : SessionTokenOf(s) # q.auth}]
                 /\ answered(p, [Response(TRUE, "") EXCEPT !.hasResult = FALSE])
            ELSE /\ box' = box
                 /\ answered(p, Response(FALSE, "auth_required"))
       [] OTHER ->
            /\ box' = box
            /\ IF validSession(q.auth)
               THEN answered(p, Response(TRUE, ""))
               ELSE answered(p, Response(FALSE, "auth_required"))
  /\ UNCHANGED <<appToken, sessionToken, challenge, permissions, tokenFile, persisted>>

\* the user answers on the appliance's front panel, or does not in time
boxDecides(k, status) ==
  /\ box.status[k] = "pending"
  /\ box' = [box EXCEPT !.status[k] = status]
  /\ UNCHANGED <<appToken, sessionToken, challenge, permissions, tokenFile, proc, persisted>>

\* the appliance renews its challenge
boxRotateChallenge ==
  /\ box.challenge < MaxChallenges
  /\ box' = [box EXCEPT !.challenge = @ + 1]
  /\ UNCHANGED <<appToken, sessionToken, challenge, permissions, tokenFile, proc, persisted>>

\* the appliance expires a session
boxExpireSession(s) ==
  /\ s \in box.sessions
  /\ box' = [box EXCEPT !.sessions = @ \ {s}]
  /\ UNCHANGED <<appToken, sessionToken, challenge, permissions, tokenFile, proc, persisted>>

\* ------------------------------------------------------------------------
\* Specifications
\* ------------------------------------------------------------------------
\* a step of a handler that runs a session method
sessionStep(p) ==
  \/ \E k \in RegIds : checkRegistrationStatusCall(p, k)
  \/ checkRegistrationStatusReturns(p)
  \/ loginCall(p)
  \/ getChallengeReturns(p)
  \/ loginResumes(p)
  \/ loginReturns(p)
  \/ logoutCall(p)
  \/ logoutReturns(p)
  \/ checkSessionCall(p)
  \/ checkSessionReturns(p)
  \/ getSystemInfoCall(p)
  \/ getSystemInfoReturns(p)
  \/ handlerEnds(p)

\* a step of a handler that runs register()
registrationStep(p) ==
  \/ registerCall(p)
  \/ registerReturns(p)

\* the session manager alone: the detector is not used
DetQuiet == DetInit /\ mockModel = ""
\* the detector alone: the session manager is not used
AuthQuiet == AuthInit /\ tokenFile = NoFile

E2EOff == [stage |-> "off", trackId |-> 0]
E2EStart == [stage |-> "start", trackId |-> 0]

\* Sessions under concurrency: NumProcs handlers run session methods on a
\* manager whose application token is the one found at start-up.
AuthNext ==
  \/ \E p \in AProcs : sessionStep(p)
  \/ \E p \in AProcs : boxServe(p)
  \/ boxRotateChallenge
  \/ \E s \in SessionIds : boxExpireSession(s)

\* no function is applied on its own
NoInput == [kind |-> "none", name |-> <<>>, flavor |-> "absent", via |-> ""]
PureQuiet == pin = NoInput /\ pout = None

\* no call of request() is followed through its awaits
NumRequests == 2
Requests == 1..NumRequests
IdleRequest ==
  [pc |-> "idle", timer |-> "unset", start |-> 0, jsonType |-> FALSE, result |-> ""]
ReqQuiet == reqs = [r \in Requests |-> IdleRequest] /\ rnow = 0

\* the front-end stores as created
StoreInit ==
  /\ authStore = [isRegistered |-> FALSE, isLoggedIn |-> FALSE, isLoading |-> TRUE,
                  isRegistering |-> FALSE, trackId |-> None, registrationStatus |-> None,
                  permissions |-> {}, error |-> None]
  /\ capStore = None
  /\ pending = [register |-> 0, poll |-> 0, timer |-> 0, login |-> 0]
  /\ invoked = 0

SessionsInit == AuthInit /\ DetQuiet /\ e2e = E2EOff /\ PureQuiet /\ ReqQuiet /\ StoreInit

SpecAuth == SessionsInit /\ [][AuthNext /\ UNCHANGED <<detVars, e2e, pureVars, reqVars, storeVars>>]_vars

\* --- the end-to-end scenario, observed on handler 1 -------------------------
\* register -> status pending three times, then granted -> login ->
\* checkSession -> logout -> checkSession.  The stage advances when the next
\* method of the scenario completes; "bad" is entered when login(), logout()
\* or checkSession() completes with another result than the scenario states;
\* "off" when the run leaves the scenario (another method, another status, a
\* failed exchange, a step of the appliance that a well-behaved one does not
\* take).
faultCodes == {"request_failed", "invalid_response", "write_failed"}

e2eAfter(r) ==
  IF r.error \in faultCodes THEN E2EOff
  ELSE CASE e2e.stage = "start" ->
              IF r.op = "register" /\ r.ok
              THEN [stage |-> "registered", trackId |-> r.trackId] ELSE E2EOff
         [] e2e.stage \in {"registered", "pending1", "pending2"} ->
              IF r.op = "status" /\ r.ok /\ r.trackId = e2e.trackId /\ r.status = "pending"
              THEN [e2e EXCEPT !.stage = CASE e2e.stage = "registered" -> "pending1"
                                           [] e2e.stage = "pending1" -> "pending2"
                                           [] OTHER -> "pending3"]
              ELSE E2EOff
         [] e2e.stage = "pending3" ->
              IF r.op = "status" /\ r.ok /\ r.trackId = e2e.trackId /\ r.status = "granted"
              THEN [e2e EXCEPT !.stage = "granted"] ELSE E2EOff
         [] e2e.stage = "granted" ->
              IF r.op # "login" THEN E2EOff
              ELSE IF r.ok /\ isLoggedIn' THEN [e2e EXCEPT !.stage = "loggedIn"]
              ELSE [e2e EXCEPT !.stage = "bad"]
         [] e2e.stage = "loggedIn" ->
              IF r.op # "checkSession" THEN E2EOff
              ELSE IF r.bool THEN [e2e EXCEPT !.stage = "checkedTrue"]
              ELSE [e2e EXCEPT !.stage = "bad"]
         [] e2e.stage = "checkedTrue" ->
              IF r.op # "logout" THEN E2EOff
              ELSE IF r.ok /\ ~isLoggedIn' THEN [e2e EXCEPT !.stage = "loggedOut"]
              ELSE [e2e EXCEPT !.stage = "bad"]
         [] e2e.stage = "loggedOut" ->
              IF r.op # "checkSession" THEN E2EOff
              ELSE IF ~r.bool THEN [e2e EXCEPT !.stage = "checkedFalse"]
              ELSE [e2e EXCEPT !.stage = "bad"]
         [] OTHER -> e2e

\* the scenario after a step of handler 1
e2eObserved ==
  IF proc[1].pc # "done" /\ proc'[1].pc = "done"
  THEN e2eAfter(proc'[1].ret)
  ELSE e2e

\* the scenario after a step that a well-behaved appliance does not take
\* while the scenario runs
e2eDisturbed == IF e2e.stage \in {"bad", "checkedFalse"} THEN e2e ELSE E2EOff

\* The whole life cycle, one handler at a time: registration, the approval
\* on the front panel, sessions and their expiry, restarts of the process.
\* The appliance keeps its challenge here; its renewal between the calls of
\* concurrent handlers is explored in SpecAuth.
SerialNext ==
  \/ (sessionStep(1) \/ registrationStep(1)) /\ e2e' = e2eObserved
  \/ boxServe(1) /\ UNCHANGED e2e
  \/ (\E k \in RegIds : boxDecides(k, "granted")) /\ UNCHANGED e2e
  \/ (\E k \in RegIds, status \in {"denied", "timeout"} : boxDecides(k, status))
       /\ e2e' = e2eDisturbed
  \/ (\E s \in SessionIds : boxExpireSession(s)) /\ e2e' = e2eDisturbed
  \/ Restart /\ e2e' = e2eDisturbed

SerialInit ==
  /\ AuthInit /\ DetQuiet /\ e2e = E2EStart /\ PureQuiet /\ ReqQuiet /\ StoreInit
  /\ \A p \in AProcs : p # 1 => proc[p] = IdleProc

SpecSerial == SerialInit /\ [][SerialNext /\ UNCHANGED <<detVars, pureVars, reqVars, storeVars>>]_vars

\* the detector with the clock standing still
DetectorInit == DetInit /\ AuthQuiet /\ e2e = E2EOff /\ PureQuiet /\ ReqQuiet /\ StoreInit

SpecDetect == DetectorInit /\ [][DetNext /\ UNCHANGED <<authVars, e2e, pureVars, reqVars, storeVars>>]_vars

\* the detector with the clock running
\* (refreshCapabilities() is clearCache() followed at once by detectModel():
\* here the two are calls of two callers in a row)
CacheNext ==
  \/ \E c \in DCallers : detectModel(c)
  \/ \E c \in DCallers : clearCache(c)
  \/ \E d \in DCallers, v \in ApiVersionResults : performDetectionFinish(d, v)
  \/ \E c \in DCallers : detectModelResume(c)
  \/ \E c \in DCallers : sharedPromiseResolves(c)
  \/ Tick

SpecCache == DetectorInit /\ [][CacheNext /\ UNCHANGED <<authVars, e2e, pureVars, reqVars, storeVars>>]_vars

\* ------------------------------------------------------------------------
\* Functions applied on their own
\* ------------------------------------------------------------------------
\* names are built from at most MaxTokens of these pieces
MaxTokens == 2

NameTokens ==
  { <<>>, <<"F","r","e","e","b","o","x"," ">>, <<"-">>, <<"S","e","r","v","e","r">>,
    <<"v","9">>, <<"U","l","t","r","a">>,
    <<"p","o","p">>, <<"P","O","P">>,
    <<"v","8">>, <<"D","e","l","t","a">>, <<"f","b","x","g","w","8">>,
    <<"V","6">>, <<"R","e","v","o","l","u","t","i","o","n">>, <<"f","b","x","g","w","1">>,
    <<"v","7">>, <<"M","i","n","i">>, <<"F","B","X","G","W","7">>,
    StrFbxgw8Pop, StrFreeboxPop }

RECURSIVE NamesOf(_)
NamesOf(n) ==
  IF n = 0 THEN {<<>>}
  ELSE {a \o b : a \in NameTokens, b \in NamesOf(n - 1)}

\* detectModelFromName(name) is to be applied
NameInputs ==
  {[kind |-> "name", name |-> n, flavor |-> "absent", via |-> ""] : n \in NamesOf(MaxTokens)}

\* a version response is to be turned into a record: the name it carries,
\* the field that carries it, the box_flavor it reports
VersionInputs ==
  [kind : {"version"},
   name : {StrFreeboxPop, StrFbxgw8Pop, StrFreeboxV9, StrFreeboxV6, <<>>},
   flavor : {"full", "light", "other", "absent"},
   via : {"box_model_name", "box_model", "device_name"}]

versionOf(in) ==
  [ok |-> TRUE, isNull |-> FALSE,
   box_model_name |-> IF in.via = "box_model_name" THEN in.name ELSE <<>>,
   box_model |-> IF in.via = "box_model" THEN in.name ELSE <<>>,
   device_name |-> IF in.via = "device_name" THEN in.name ELSE <<>>,
   box_flavor |-> in.flavor]

\* the content-type values an answer can carry
StrApplicationJson == <<"a","p","p","l","i","c","a","t","i","o","n","/","j","s","o","n">>
StrJsonUtf8 == StrApplicationJson \o <<";"," ","c","h","a","r","s","e","t","=","u","t","f","-","8">>
StrTextHtml == <<"t","e","x","t","/","h","t","m","l">>

\* what the body of an answer parses to: an envelope, or nothing when it is
\* not JSON
Bodies ==
  {None, Some(Response(TRUE, "")), Some(Response(FALSE, "auth_required")),
   Some(Response(FALSE, "invalid_token"))}

\* request() is to be run against one outcome of fetch(): the fetch rejects
\* or is aborted by the timeout, or it yields a response with a content-type
\* header (None: no header), a status and a body; reading the body can
\* itself reject
HttpInputs ==
  [kind : {"http"},
   fetch : {"responds", "rejects", "aborted"},
   contentType : {None, Some(<<>>), Some(StrTextHtml), Some(StrApplicationJson),
                  Some(StrJsonUtf8)},
   status : {200, 403, 502},
   body : Bodies,
   readable : BOOLEAN]

\* request(), from the fetch to the value the returned promise resolves
\* with; the function has no path on which the promise rejects
requestOutcome(h) ==
  IF h.fetch # "responds" THEN Response(FALSE, "request_failed")
  ELSE IF h.contentType = None \/ Get(h.contentType) = <<>>
            \/ ~includes(Get(h.contentType), StrApplicationJson)
       THEN IF h.readable THEN Response(FALSE, "invalid_response")
            ELSE Response(FALSE, "request_failed")
       ELSE IF h.readable /\ h.body # None THEN Get(h.body)
            ELSE Response(FALSE, "request_failed")

\* --- routes/vm.ts: GET /api/vm and POST /api/vm ------------------------------
\* A request reaches the VM router while the appliance is of a family and
\* the detector has its record cached or not (none before the first
\* detection and after clearCache()); the appliance holds vmCount VMs, and
\* each call the handler makes succeeds or comes back as a failure envelope.
VmInputs ==
  [kind : {"vm"}, method : {"GET", "POST"}, family : FreeboxModel, cached : BOOLEAN,
   vmCount : {0, 3}, vmsOk : BOOLEAN, disks : {"ok", "none", "failed"}, createOk : BOOLEAN]

\* modelDetection.getCapabilities() in that state
cachedCapabilities(in) ==
  IF in.cached
  THEN Some(buildCapabilities(in.family, MOCK_MODEL_NAMES[in.family].name,
                              MOCK_MODEL_NAMES[in.family].flavor, 0))
  ELSE None

Answer(status, code, calls) == [status |-> status, code |-> code, calls |-> calls]

\* the guard both handlers start with
vmNotSupported(caps) == caps # None /\ Get(caps).vmSupport = "none"

\* GET /api/vm
getVmsRoute(in) ==
  LET caps == cachedCapabilities(in) IN
  IF vmNotSupported(caps) THEN Answer(403, "vm_not_supported", <<>>)
  ELSE Answer(200, IF in.vmsOk THEN "" ELSE "request_failed", <<"getVms">>)

\* POST /api/vm
createVmRoute(in) ==
  LET caps == cachedCapabilities(in)
      counted == caps # None /\ Get(caps).vmSupport = "limited"
      calls1 == IF counted THEN <<"getVms">> ELSE <<>>
  IN
  IF vmNotSupported(caps) THEN Answer(403, "vm_not_supported", <<>>)
  ELSE IF counted /\ in.vmsOk /\ in.vmCount >= Get(caps).maxVms
       THEN Answer(400, "vm_limit_reached", calls1)
  ELSE IF in.disks # "ok" THEN Answer(400, "no_disk", calls1 \o <<"getDisks">>)
  ELSE Answer(200, IF in.createOk THEN "" ELSE "request_failed",
              calls1 \o <<"getDisks", "createVm">>)

\* --- routes/wifi.ts: GET /api/wifi/full --------------------------------------
B2g4 == <<"2", "g", "4">>
B5g == <<"5", "g">>
B6g == <<"6", "g">>
B6G == <<"6", "G">>

\* an access point or a BSS, with its band; None: no band field
BandLists ==
  {<<>>, <<[band |-> Some(B2g4)], [band |-> Some(B5g)]>>,
   <<[band |-> Some(B2g4)], [band |-> Some(B6G)], [band |-> None]>>}

\* how one of the sub-requests settles: rejected, fulfilled without success,
\* fulfilled with success and no result, fulfilled with a list
ListOutcomes ==
  {[state |-> "rejected", result |-> <<>>], [state |-> "failed", result |-> <<>>],
   [state |-> "noResult", result |-> <<>>]}
    \cup [state : {"ok"}, result : BandLists]

Device(active, wifi, band) ==
  [active |-> active, reachable |-> TRUE, wifi |-> wifi, band |-> band]

LanOutcomes ==
  {[state |-> "rejected", result |-> <<>>], [state |-> "failed", result |-> <<>>],
   [state |-> "noResult", result |-> <<>>],
   [state |-> "ok", result |-> <<Device(TRUE, TRUE, Some(B5g)), Device(TRUE, TRUE, Some(B6g)),
                                 Device(TRUE, FALSE, None), Device(FALSE, TRUE, Some(B6g)),
                                 Device(TRUE, TRUE, None)>>]}

\* the handler runs with modelDetection.supportsWifi6ghz() as given
WifiInputs ==
  [kind : {"wifi"}, supports6ghz : BOOLEAN, aps : ListOutcomes, bss : ListOutcomes,
   lan : LanOutcomes]

\* x.band?.toLowerCase().includes('6g'), undefined (falsy) without a band
is6g(x) == x.band # None /\ includes(toLowerCase(Get(x.band)), B6g)

\* the band a device is counted under
bandOf(dev) ==
  LET band == IF dev.band = None THEN <<>> ELSE toLowerCase(Get(dev.band)) IN
  IF includes(band, B6g) THEN "6g"
  ELSE IF includes(band, B5g) THEN "5g"
  ELSE IF includes(band, <<"2">>) \/ includes(band, B2g4) \/ includes(band, <<"2", ".", "4">>)
       THEN "2g4"
  ELSE ""

wifiFull(in) ==
  LET \* apsData and bssData: the result (undefined when missing) on success,
      \* [] otherwise
      apsIsArray == in.aps.state # "noResult"
      bssIsArray == in.bss.state # "noResult"
      apsData == IF in.aps.state = "ok" THEN in.aps.result ELSE <<>>
      bssData == IF in.bss.state = "ok" THEN in.bss.result ELSE <<>>
      wifiDevices == IF in.lan.state = "ok"
                     THEN SelectSeq(in.lan.result,
                                    LAMBDA dev : dev.active /\ dev.reachable /\ dev.wifi)
                     ELSE <<>>
      wifiDeviceCount == Len(wifiDevices)
      count(b) == Len(SelectSeq(wifiDevices, LAMBDA dev : bandOf(dev) = b))
      filtering == ~in.supports6ghz /\ apsIsArray /\ bssIsArray
  IN
  [aps |-> IF filtering THEN SelectSeq(apsData, LAMBDA ap : ~is6g(ap)) ELSE apsData,
   bss |-> IF filtering THEN SelectSeq(bssData, LAMBDA b : ~is6g(b)) ELSE bssData,
   wifiDeviceCount |-> IF in.supports6ghz THEN wifiDeviceCount
                       ELSE wifiDeviceCount - count("6g"),
   devicesByBand |-> [b \in {"2g4", "5g", "6g"} |->
                        IF b = "6g" /\ filtering THEN 0 ELSE count(b)]]

\* --- routes/vm.ts: the routes below /api/vm, in registration order ------------
SegId == <<":", "i", "d">>
SegStart == <<"s", "t", "a", "r", "t">>
SegStop == <<"s", "t", "o", "p">>
SegRestart == <<"r", "e", "s", "t", "a", "r", "t">>
SegDistros == <<"d", "i", "s", "t", "r", "o", "s">>

Route(method, path, call) == [method |-> method, path |-> path, call |-> call]

VmRoutes ==
  << Route("GET", <<>>, "getVms"),
     Route("GET", <<SegId>>, "getVm"),
     Route("POST", <<SegId, SegStart>>, "startVm"),
     Route("POST", <<SegId, SegStop>>, "stopVm"),
     Route("POST", <<SegId, SegRestart>>, "restartVm"),
     Route("POST", <<>>, "createVm"),
     Route("PUT", <<SegId>>, "updateVm"),
     Route("DELETE", <<SegId>>, "deleteVm"),
     Route("GET", <<SegDistros>>, "getVmDistros") >>

\* a route parameter matches any segment, another segment matches itself
segMatches(pattern, seg) == pattern[1] = ":" \/ pattern = seg

routeMatches(route, method, path) ==
  /\ route.method = method
  /\ Len(route.path) = Len(path)
  /\ \A i \in 1..Len(path) : segMatches(route.path[i], path[i])

\* the first route registered that matches, 0 when none does
dispatch(method, path) ==
  LET ms == {i \in 1..Len(VmRoutes) : routeMatches(VmRoutes[i], method, path)}
  IN IF ms = {} THEN 0 ELSE CHOOSE i \in ms : \A j \in ms : i <= j

Digits == {"0", "1", "2", "3", "4", "5", "6", "7", "8", "9"}
\* isNaN(parseInt(seg, 10)): parseInt reads the digits the text starts with
parseIntIsNaN(seg) == seg = <<>> \/ seg[1] \notin Digits

\* the paths requested below /api/vm
VmPaths ==
  {<<SegDistros>>, <<<<"1">>>>, <<<<"7">>>>, <<<<"1", "2">>>>, <<<<"1">>, SegStart>>,
   <<<<"2">>, SegStop>>, <<SegDistros, SegRestart>>, <<<<"1">>, SegDistros>>,
   <<<<"x">>>>, <<<<"2">>, <<"x">>>>}

RouteInputs ==
  [kind : {"route"}, method : {"GET", "POST", "PUT", "DELETE"}, path : VmPaths,
   ok : BOOLEAN]

\* what the handler of route i answers: the routes with an id refuse one that
\* is not a number; each then makes its call and passes on what request()
\* resolved with
RouteAnswer(route, status, code, calls) ==
  [route |-> route, status |-> status, code |-> code, calls |-> calls]

handle(i, in) ==
  IF i = 0 THEN RouteAnswer(0, 404, "not_found", <<>>)
  ELSE IF VmRoutes[i].path # <<>> /\ VmRoutes[i].path[1] = SegId /\ parseIntIsNaN(in.path[1])
       THEN RouteAnswer(i, 400, "INVALID_ID", <<>>)
  ELSE RouteAnswer(i, 200, IF in.ok THEN "" ELSE "request_failed", <<VmRoutes[i].call>>)

PureInit ==
  /\ pin \in NameInputs \cup VersionInputs \cup HttpInputs \cup VmInputs \cup WifiInputs
              \cup RouteInputs
  /\ pout = None
  /\ DetInit /\ mockModel = "" /\ AuthQuiet /\ e2e = E2EOff /\ ReqQuiet /\ StoreInit

\* detectModelFromName(pin.name) is called
classify ==
  /\ pin.kind = "name" /\ pout = None
  /\ pout' = Some(detectModelFromName(pin.name))
  /\ UNCHANGED pin

\* _performDetection() gets the version response versionOf(pin)
detect ==
  /\ pin.kind = "version" /\ pout = None
  /\ pout' = Some(detectionResult(versionOf(pin), 0))
  /\ UNCHANGED pin

\* request() runs against the fetch outcome pin
request ==
  /\ pin.kind = "http" /\ pout = None
  /\ pout' = Some(requestOutcome(pin))
  /\ UNCHANGED pin

\* the VM router handles the request pin
vmRequest ==
  /\ pin.kind = "vm" /\ pout = None
  /\ pout' = Some(IF pin.method = "GET" THEN getVmsRoute(pin) ELSE createVmRoute(pin))
  /\ UNCHANGED pin

\* GET /api/wifi/full is handled with the sub-request outcomes pin
wifiRequest ==
  /\ pin.kind = "wifi" /\ pout = None
  /\ pout' = Some(wifiFull(pin))
  /\ UNCHANGED pin

\* the VM router dispatches the request pin
routeRequest ==
  /\ pin.kind = "route" /\ pout = None
  /\ pout' = Some(handle(dispatch(pin.method, pin.path), pin))
  /\ UNCHANGED pin

PureNext == classify \/ detect \/ request \/ vmRequest \/ wifiRequest \/ routeRequest

SpecPure == PureInit /\ [][PureNext /\ UNCHANGED <<detVars, authVars, e2e, reqVars, storeVars>>]_vars

\* ------------------------------------------------------------------------
\* request() through its awaits, with its timer
\* ------------------------------------------------------------------------
\* config.freebox.requestTimeout: 10000 ms, in units of 5 s
requestTimeout == 2
\* the clock stops here
MaxClock == 4

\* request() up to `await fetch(...)`: the timer is armed
requestStarts(r) ==
  /\ reqs[r].pc = "idle"
  /\ rnow + requestTimeout <= MaxClock
  /\ reqs' = [reqs EXCEPT ![r] = [IdleRequest EXCEPT !.pc = "fetching", !.timer = "armed",
                                                     !.start = rnow]]
  /\ UNCHANGED rnow

\* the timer of request r is due
due(r) == reqs[r].timer = "armed" /\ rnow >= reqs[r].start + requestTimeout

\* clearTimeout(timeout) after the fetch
clearTimeout(t) == "cleared"

\* fetch() resolves, the headers are there: the timer is cleared and the
\* body is awaited, as text when the content type is not JSON
fetchResolves(r, json) ==
  /\ reqs[r].pc = "fetching"
  /\ reqs' = [reqs EXCEPT ![r].pc = "readingBody", ![r].jsonType = json,
                          ![r].timer = clearTimeout(@)]
  /\ UNCHANGED rnow

\* fetch() rejects (connection refused, reset): the catch builds the result;
\* the timer is left armed
fetchRejects(r) ==
  /\ reqs[r].pc = "fetching"
  /\ reqs' = [reqs EXCEPT ![r].pc = "resolved", ![r].result = "request_failed"]
  /\ UNCHANGED rnow

\* the timer fires: controller.abort().  A fetch that is pending, or a body
\* that is being read, rejects, and the catch builds the result
timerFires(r) ==
  /\ due(r)
  /\ reqs' = [reqs EXCEPT ![r].timer = "fired",
                          ![r].pc = IF @ \in {"fetching", "readingBody"} THEN "resolved" ELSE @,
                          ![r].result = IF reqs[r].pc \in {"fetching", "readingBody"}
                                        THEN "request_failed" ELSE @]
  /\ UNCHANGED rnow

\* the body is there: response.text() resolves, or response.json() resolves
\* (parses) or rejects
bodyArrives(r, parses) ==
  /\ reqs[r].pc = "readingBody"
  /\ reqs' = [reqs EXCEPT ![r].pc = "resolved",
                          ![r].result = IF ~reqs[r].jsonType THEN "invalid_response"
                                        ELSE IF parses THEN "data" ELSE "request_failed"]
  /\ UNCHANGED rnow

\* the connection breaks while the body is read
bodyFails(r) ==
  /\ reqs[r].pc = "readingBody"
  /\ reqs' = [reqs EXCEPT ![r].pc = "resolved", ![r].result = "request_failed"]
  /\ UNCHANGED rnow

\* time passes; a timer that is due fires before the clock moves on
TickRequest ==
  /\ rnow < MaxClock
  /\ \A r \in Requests : ~due(r)
  /\ rnow' = rnow + 1
  /\ UNCHANGED reqs

RequestNext ==
  \/ \E r \in Requests : requestStarts(r)
  \/ \E r \in Requests, json \in BOOLEAN : fetchResolves(r, json)
  \/ \E r \in Requests : fetchRejects(r)
  \/ \E r \in Requests : timerFires(r)
  \/ \E r \in Requests, parses \in BOOLEAN : bodyArrives(r, parses)
  \/ \E r \in Requests : bodyFails(r)
  \/ TickRequest

RequestInit ==
  /\ ReqQuiet /\ StoreInit /\ PureQuiet /\ DetInit /\ mockModel = "" /\ AuthQuiet /\ e2e = E2EOff

\* The appliance and the network owe nothing: only the clock and the timers
\* are sure to go on.
SpecRequest ==
  /\ RequestInit
  /\ [][RequestNext /\ UNCHANGED <<detVars, authVars, e2e, pureVars, storeVars>>]_vars
  /\ WF_reqVars(TickRequest)
  /\ \A r \in Requests : WF_reqVars(timerFires(r))

\* C21: a request() whose exchange is not complete when the timeout is over
\* has been cancelled: no request is still waiting, for the headers or for
\* the body, later than requestTimeout after its start.
C21_ResolvedWhenTimeoutOver ==
  \A r \in Requests :
    reqs[r].pc \in {"fetching", "readingBody"} => rnow <= reqs[r].start + requestTimeout

\* ------------------------------------------------------------------------
\* The auth store of the front end: registration and its polling
\* ------------------------------------------------------------------------
\* the UI invokes register() and checkRegistrationStatus() at most this often
MaxInvocations == 3
\* the tracking ids the server hands out
MaxTrackId == 2

\* what an awaited call of the api client comes back with: a response with
\* success and a result, a response without, or an exception
RegisterResponses ==
  [kind : {"ok"}, trackId : 1..MaxTrackId] \cup {[kind |-> "failed"], [kind |-> "throws"]}
StatusResponses ==
  [kind : {"ok"}, status : {"unknown", "pending", "timeout", "granted", "denied"}]
    \cup {[kind |-> "failed"], [kind |-> "throws"]}
LoginResponses ==
  [kind : {"ok"}, permissions : {{}, {"settings"}},
   capabilities : {None, Some(MODEL_CAPABILITIES["pop"])}]
    \cup {[kind |-> "failed"], [kind |-> "throws"]}

\* checkRegistrationStatus() up to its await, on the store st: nothing
\* without a trackId, else one more poll awaits the server
pollStarted(st, pend) ==
  IF st.trackId = None THEN pend ELSE [pend EXCEPT !.poll = @ + 1]

\* register() up to its await
storeRegister ==
  /\ invoked < MaxInvocations
  /\ invoked' = invoked + 1
  /\ authStore' = [authStore EXCEPT !.isRegistering = TRUE, !.error = None,
                                    !.registrationStatus = Some("pending")]
  /\ pending' = [pending EXCEPT !.register = @ + 1]
  /\ UNCHANGED capStore

\* register() after its await; on success it calls checkRegistrationStatus()
storeRegisterResumes(resp) ==
  /\ pending.register > 0
  /\ LET st == IF resp.kind = "ok"
               THEN [authStore EXCEPT !.trackId = Some(resp.trackId),
                                      !.registrationStatus = Some("pending")]
               ELSE [authStore EXCEPT !.isRegistering = FALSE,
                                      !.error = Some("Registration failed")]
         pend == [pending EXCEPT !.register = @ - 1]
     IN /\ authStore' = st
        /\ pending' = IF resp.kind = "ok" THEN pollStarted(st, pend) ELSE pend
  /\ UNCHANGED <<capStore, invoked>>

\* the UI invokes checkRegistrationStatus()
storeCheckRegistrationStatus ==
  /\ invoked < MaxInvocations
  /\ invoked' = invoked + 1
  /\ pending' = pollStarted(authStore, pending)
  /\ UNCHANGED <<authStore, capStore>>

\* checkRegistrationStatus() after its await.  granted: login() is called
\* and runs up to its await; pending: the next poll is set one second
\* ahead; unknown, and a response without success: nothing is done
storePollResumes(resp) ==
  /\ pending.poll > 0
  /\ LET pend == [pending EXCEPT !.poll = @ - 1] IN
     CASE resp.kind = "throws" ->
            /\ authStore' = [authStore EXCEPT !.isRegistering = FALSE,
                   !.error = Some("Failed to check registration status")]
            /\ pending' = pend
       [] resp.kind = "failed" ->
            /\ authStore' = authStore
            /\ pending' = pend
       [] resp.kind = "ok" /\ resp.status = "granted" ->
            /\ authStore' = [authStore EXCEPT !.registrationStatus = Some("granted"),
                   !.isRegistered = TRUE, !.isRegistering = FALSE,
                   !.isLoading = TRUE, !.error = None]
            /\ pending' = [pend EXCEPT !.login = @ + 1]
       [] resp.kind = "ok" /\ resp.status \in {"denied", "timeout"} ->
            /\ authStore' = [authStore EXCEPT !.registrationStatus = Some(resp.status),
                   !.isRegistering = FALSE,
                   !.error = Some(IF resp.status = "denied"
                                  THEN "Registration denied on Freebox"
                                  ELSE "Registration timed out")]
            /\ pending' = pend
       [] resp.kind = "ok" /\ resp.status = "pending" ->
            /\ authStore' = [authStore EXCEPT !.registrationStatus = Some("pending")]
            /\ pending' = [pend EXCEPT !.timer = @ + 1]
       [] OTHER ->
            /\ authStore' = [authStore EXCEPT !.registrationStatus = Some(resp.status)]
            /\ pending' = pend
  /\ UNCHANGED <<capStore, invoked>>

\* a timer set by a poll fires: checkRegistrationStatus() runs up to its await
storePollTimer ==
  /\ pending.timer > 0
  /\ pending' = pollStarted(authStore, [pending EXCEPT !.timer = @ - 1])
  /\ UNCHANGED <<authStore, capStore, invoked>>

\* login() after its await
storeLoginResumes(resp) ==
  /\ pending.login > 0
  /\ pending' = [pending EXCEPT !.login = @ - 1]
  /\ IF resp.kind = "ok"
     THEN /\ authStore' = [authStore EXCEPT !.isLoggedIn = TRUE, !.isLoading = FALSE,
                                            !.permissions = resp.permissions]
          /\ capStore' = IF resp.capabilities # None THEN resp.capabilities ELSE capStore
     ELSE /\ authStore' = [authStore EXCEPT !.isLoading = FALSE,
                                            !.error = Some("Login failed")]
          /\ UNCHANGED capStore
  /\ UNCHANGED invoked

StoreNext ==
  \/ storeRegister
  \/ \E resp \in RegisterResponses : storeRegisterResumes(resp)
  \/ storeCheckRegistrationStatus
  \/ \E resp \in StatusResponses : storePollResumes(resp)
  \/ storePollTimer
  \/ \E resp \in LoginResponses : storeLoginResumes(resp)

FrontEndInit ==
  /\ StoreInit /\ ReqQuiet /\ PureQuiet /\ DetInit /\ mockModel = "" /\ AuthQuiet /\ e2e = E2EOff

SpecStore ==
  FrontEndInit /\ [][StoreNext /\ UNCHANGED <<detVars, authVars, e2e, pureVars, reqVars>>]_vars

\* C22: at most one poll of the registration status is outstanding or
\* scheduled at any time, whatever register() and
\* checkRegistrationStatus() invocations are made.
C22_OnePollAtATime == pending.poll + pending.timer <= 1

\* C30: the store is never left registering with nothing that could end
\* it: while isRegistering is true, a register() or a poll awaits the
\* server or a next poll is scheduled.
C30_RegisteringIsPolling ==
  authStore.isRegistering => pending.register + pending.poll + pending.timer > 0

\* ------------------------------------------------------------------------
\* Properties of the capability detector
\* ------------------------------------------------------------------------
\* clearCache() or refreshCapabilities() has been called
everCleared == \E c \in DCallers : dop[c] \in {"clearCache", "refreshCapabilities"}

\* the detections that issued getApiVersion()
apiCallsIssued == IF mockActive THEN {} ELSE {d \in DCallers : dets[d].state # "unused"}

\* the detections whose getApiVersion() has not resolved
inFlight == {d \in DCallers : dets[d].state = "fetching"}

\* C1: live detection, cold cache, no clearCache()/refreshCapabilities():
\* the callers that call detectModel() before the first result resolves all
\* wait on one detection, exactly one getApiVersion() call has been issued,
\* and they all receive the same record (the same object).
C1_ColdCacheOneCall ==
  (~mockActive /\ ~everCleared) =>
    /\ coldBatch # {} => Cardinality({dprom[c] : c \in coldBatch}) = 1
    /\ (coldBatch # {} /\ ~anyResolved) => Cardinality(apiCallsIssued) = 1
    /\ \A c1 \in coldBatch, c2 \in coldBatch :
         (dpc[c1] = "done" /\ dpc[c2] = "done") =>
           (IsSome(dres[c1]) /\ dres[c1] = dres[c2])

\* C1 witness: every caller called on the cold cache before the first result,
\* all have their record, one call was issued
C1_Witness ==
  /\ ~mockActive /\ ~everCleared
  /\ coldBatch = DCallers
  /\ \A c \in DCallers : dpc[c] = "done" /\ IsSome(dres[c])
  /\ Cardinality(apiCallsIssued) = 1

\* C2: at every moment at most one hardware detection is in flight
C2_AtMostOneInFlight == Cardinality(inFlight) <= 1

\* C13: detectModel() called while a record is cached and less than
\* CACHE_DURATION has passed since it was stored returns that record and
\* starts no detection; called once CACHE_DURATION or more has passed it
\* does not return the cached record, and it starts a new detection unless
\* one started by an earlier call is in flight.
C13_CachedForFiveMinutes ==
  [][\A c \in DCallers :
       /\ (detectModel(c) /\ IsSome(capabilities)
             /\ now - lastDetectionTime < CACHE_DURATION) =>
             /\ dpc'[c] = "done"
             /\ dres'[c] = capabilities
             /\ dets' = dets
             /\ UNCHANGED <<capabilities, lastDetectionTime, detectionPromise>>
       /\ (detectModel(c) /\ IsSome(capabilities)
             /\ now - lastDetectionTime >= CACHE_DURATION) =>
             /\ dpc'[c] # "done"
             /\ detectionPromise' # 0
             /\ detectionPromise = 0 =>
                  (dets'[c].state # "unused" /\ dprom'[c] = c /\ detectionPromise' = c)]_vars

\* caller 2 was served from the cache, caller 3 called after the window and
\* started a detection
C13_Witness ==
  /\ ~mockActive /\ ~everCleared
  /\ dpc[2] = "done" /\ dprom[2] = 0 /\ IsSome(dres[2]) /\ dres[2] = dres[1]
  /\ now >= CACHE_DURATION
  /\ dprom[3] = 3 /\ dets[3].state # "unused"

\* C14: refreshCapabilities() starts a detection of its own whatever the
\* cache holds (a version query unless the mock switch is set); when that
\* query resolves the cached record becomes its result, the defaults if it
\* failed; and refreshCapabilities() resolves after that, with that result.
C14_RefreshAlwaysRequeries ==
  /\ [][\A c \in DCallers :
          /\ refreshCapabilities(c) =>
                /\ dprom'[c] = c /\ detectionPromise' = c
                /\ dets'[c].state = IF mockActive THEN "resolved" ELSE "fetching"
          /\ \A v \in ApiVersionResults :
                (dop[c] = "refreshCapabilities" /\ performDetectionFinish(c, v)) =>
                   /\ capabilities' = dets'[c].result
                   /\ lastDetectionTime' = now
                   /\ capabilities' = IF detectionFails(v)
                                      THEN Some(buildDefaultCapabilities(c))
                                      ELSE Some(capabilitiesFromVersion(v, c))]_vars
  /\ [](\A c \in DCallers :
          (dop[c] = "refreshCapabilities" /\ dpc[c] = "done") =>
             /\ dets[c].state = "resolved"
             /\ IsSome(dres[c])
             /\ dres[c] = dets[c].result)

\* a record was cached by detectModel(); a refreshCapabilities() whose query
\* failed has replaced it by the defaults
C14_Witness ==
  /\ ~mockActive
  /\ dop[1] = "detectModel" /\ dpc[1] = "done"
  /\ IsSome(dres[1]) /\ Get(dres[1]).model = "pop"
  /\ dop[2] = "refreshCapabilities" /\ dpc[2] = "done"
  /\ dres[2] = Some(buildDefaultCapabilities(2))
  /\ capabilities = dres[2]

\* every field of a capabilities record is set: the fields of the static
\* table are those of the record's family, the runtime fields are set
populated(r) ==
  /\ r.model \in FreeboxModel
  /\ \A f \in DOMAIN MODEL_CAPABILITIES[r.model] \ {"hasInternalStorage"} :
       r[f] = MODEL_CAPABILITIES[r.model][f]
  /\ r.modelName # <<>> /\ r.modelName # NotAString
  /\ r.boxFlavor \in {"full", "light"}
  /\ r.hasInternalStorage \in BOOLEAN

unknownDefaults(r) ==
  r.model = "unknown" /\ r.vmSupport = "none" /\ r.maxVms = 0 /\ ~r.wifi6ghz

\* C15: detectModel() and refreshCapabilities() always resolve with a fully
\* populated record, and a detection that failed (no answer, no body, a
\* body without a usable name) stores and returns the defaults of the
\* unknown family.
C15_DetectionNeverFails ==
  /\ [](\A c \in DCallers :
          /\ (dpc[c] = "done" /\ dop[c] \in {"detectModel", "refreshCapabilities"}) =>
                (IsSome(dres[c]) /\ populated(Get(dres[c])))
          /\ dets[c].state = "resolved" =>
                (IsSome(dets[c].result) /\ populated(Get(dets[c].result)))
          /\ IsSome(capabilities) => populated(Get(capabilities)))
  /\ [][\A d \in DCallers, v \in ApiVersionResults :
          (performDetectionFinish(d, v) /\ (detectionFails(v) \/ modelNameOf(v) = StrUnknown)) =>
             /\ IsSome(dets'[d].result)
             /\ unknownDefaults(Get(dets'[d].result))
             /\ capabilities' = dets'[d].result]_vars

\* two callers have been served by one detection that failed
C15_Witness ==
  /\ ~mockActive
  /\ dop[1] = "detectModel" /\ dpc[1] = "done"
  /\ dres[1] = Some(buildDefaultCapabilities(1))
  /\ dop[2] \in {"detectModel", "refreshCapabilities"} /\ dpc[2] = "done"
  /\ IsSome(dres[2]) /\ unknownDefaults(Get(dres[2]))

\* C16: once clearCache() has been called and no detectModel() or
\* refreshCapabilities() has been called after it, no record is cached.
\* (The callers are numbered in the order of their calls.)
C16_ClearedUntilNextDetection ==
  \A k \in DCallers :
    ( /\ dop[k] = "clearCache"
      /\ \A j \in DCallers : j > k => dop[j] \in {"none", "clearCache"} )
    => capabilities = None

\* C19: with the mock switch set to a family, no version query is issued
\* and every capability field of a detected record, hasInternalStorage
\* included, is the one of that family's entry of the table.
C19_MockTableVerbatim ==
  mockActive =>
    \A c \in DCallers :
      /\ dets[c].state # "fetching"
      /\ dets[c].state = "resolved" =>
           \A f \in DOMAIN MODEL_CAPABILITIES[mockModel] :
             Get(dets[c].result)[f] = MODEL_CAPABILITIES[mockModel][f]

\* C24: only the ultra family has the 6 GHz band: in every record a
\* detection returns, and in the table entry of its family, wifi6ghz is
\* true exactly when the model is ultra.
C24_SixGhzOnlyUltra ==
  \A c \in DCallers :
    dets[c].state = "resolved" =>
      LET r == Get(dets[c].result) IN
      /\ r.wifi6ghz <=> r.model = "ultra"
      /\ MODEL_CAPABILITIES[r.model].wifi6ghz <=> r.model = "ultra"

\* --- the helpers of ModelDetectionService -----------------------------------
\* this.capabilities?.f === v: the left side is undefined, and equal to no
\* string, when no record is cached
fieldIs(caps, f, v) == caps # None /\ Get(caps)[f] = v
\* this.capabilities?.f ?? d
fieldOr(caps, f, d) == IF caps = None THEN d ELSE Get(caps)[f]

supportsVm == ~fieldIs(capabilities, "vmSupport", "none")
hasFullVmSupport == fieldIs(capabilities, "vmSupport", "full")
getMaxVms == fieldOr(capabilities, "maxVms", 0)
supportsWifi6ghz == fieldOr(capabilities, "wifi6ghz", FALSE)
hasInternalStorage == fieldOr(capabilities, "hasInternalStorage", FALSE)

\* the same getters of useCapabilitiesStore, for a store that holds caps
storeSupportsVm(caps) == ~fieldIs(caps, "vmSupport", "none")
storeHasFullVmSupport(caps) == fieldIs(caps, "vmSupport", "full")
storeGetMaxVms(caps) == fieldOr(caps, "maxVms", 0)
storeSupportsWifi6ghz(caps) == fieldOr(caps, "wifi6ghz", FALSE)
storeHasInternalStorage(caps) == fieldOr(caps, "hasInternalStorage", FALSE)

\* C23: with no record cached every helper answers as for the unknown
\* family (no VM, 0 VMs, no 6 GHz, no internal storage), and supportsVm()
\* is true only if getMaxVms() > 0; the same for the getters of the
\* front-end store when it holds what the server has cached.
C23_HelpersDefaultToUnknown ==
  /\ capabilities = None =>
       /\ ~supportsVm /\ ~hasFullVmSupport /\ getMaxVms = 0
       /\ ~supportsWifi6ghz /\ ~hasInternalStorage
       /\ ~storeSupportsVm(capabilities) /\ ~storeHasFullVmSupport(capabilities)
       /\ storeGetMaxVms(capabilities) = 0
       /\ ~storeSupportsWifi6ghz(capabilities) /\ ~storeHasInternalStorage(capabilities)
  /\ supportsVm => getMaxVms > 0
  /\ storeSupportsVm(capabilities) => storeGetMaxVms(capabilities) > 0

\* ------------------------------------------------------------------------
\* Properties of the functions
\* ------------------------------------------------------------------------
\* marker m occurs in name, letters compared without regard to case
occurs(m, name) ==
  \E i \in 1..Len(name) :
    /\ i + Len(m) - 1 <= Len(name)
    /\ \A j \in 1..Len(m) : toLowerChar(name[i + j - 1]) = m[j]

occursAny(markers, name) == \E m \in markers : occurs(m, name)

\* the precedence ultra > pop > delta > revolution > unknown
familyByPrecedence(name) ==
  IF occursAny({<<"v","9">>, <<"u","l","t","r","a">>}, name) THEN "ultra"
  ELSE IF occursAny({<<"p","o","p">>}, name) THEN "pop"
  ELSE IF occursAny({<<"v","8">>, <<"d","e","l","t","a">>, <<"f","b","x","g","w","8">>}, name)
    THEN "delta"
  ELSE IF occursAny({<<"v","6">>, <<"r","e","v","o","l","u","t","i","o","n">>,
                     <<"f","b","x","g","w","1">>, <<"v","7">>, <<"m","i","n","i">>,
                     <<"f","b","x","g","w","7">>}, name)
    THEN "revolution"
  ELSE "unknown"

C18_FreeboxPopRecord ==
  (pin.kind = "version" /\ pin.name = StrFreeboxPop /\ pout # None) =>
     LET r == Get(pout) IN
     /\ r.model = "pop" /\ r.vmSupport = "none" /\ r.maxVms = 0 /\ ~r.wifi6ghz
     /\ \A f \in DOMAIN MODEL_CAPABILITIES["pop"] \ {"hasInternalStorage"} :
          r[f] = MODEL_CAPABILITIES["pop"][f]
     /\ r.modelName = StrFreeboxPop
     /\ r.hasInternalStorage = (pin.flavor = "full")

C18_Witness ==
  /\ pin.kind = "version" /\ pin.name = StrFreeboxPop /\ pin.flavor = "full"
  /\ pout # None
  /\ Get(pout).model = "pop" /\ Get(pout).hasInternalStorage

\* an answer of the appliance that is not JSON: no JSON content type, or a
\* body that does not parse
notJson(h) ==
  /\ h.fetch = "responds" /\ h.readable
  /\ \/ h.contentType = None
     \/ ~includes(Get(h.contentType), StrApplicationJson)
     \/ h.body = None

\* C20: for every answer that is not JSON, request() resolves with
\* success false and error_code invalid_response.
C20_NonJsonIsInvalidResponse ==
  (pin.kind = "http" /\ notJson(pin) /\ pout # None) =>
     /\ ~Get(pout).success
     /\ Get(pout).error_code = "invalid_response"

\* C25: when the appliance is of a family without VM support, GET /api/vm
\* and POST /api/vm answer 403 vm_not_supported and make no call to the
\* appliance, whether or not the detector has a record cached.
C25_NoVmCallWithoutSupport ==
  (pin.kind = "vm" /\ MODEL_CAPABILITIES[pin.family].vmSupport = "none" /\ pout # None) =>
     /\ Get(pout).status = 403 /\ Get(pout).code = "vm_not_supported"
     /\ Get(pout).calls = <<>>

\* C26: when the model does not support 6 GHz, the result of
\* GET /api/wifi/full has no 6 GHz access point and no 6 GHz BSS, counts
\* no device under '6g', and its wifiDeviceCount leaves the 6 GHz devices
\* out, however the three sub-requests settle.
C26_NoSixGhzInWifiFull ==
  (pin.kind = "wifi" /\ ~pin.supports6ghz /\ pout # None) =>
     LET res == Get(pout) IN
     /\ \A i \in 1..Len(res.aps) : ~is6g(res.aps[i])
     /\ \A i \in 1..Len(res.bss) : ~is6g(res.bss[i])
     /\ res.devicesByBand["6g"] = 0
     /\ res.wifiDeviceCount = res.devicesByBand["2g4"] + res.devicesByBand["5g"]
                                + (IF pin.lan.state = "ok" THEN 1 ELSE 0)

\* C27: GET /api/vm/distros is answered by the distros handler, which
\* asks the appliance for its distros, and by no other route.
C27_DistrosServedByItsHandler ==
  (pin.kind = "route" /\ pin.method = "GET" /\ pin.path = <<SegDistros>> /\ pout # None) =>
     /\ VmRoutes[Get(pout).route].call = "getVmDistros"
     /\ Get(pout).status = 200
     /\ Get(pout).calls = <<"getVmDistros">>

\* ------------------------------------------------------------------------
\* Properties of the session manager
\* ------------------------------------------------------------------------
\* C3: the password a login() sends is the HMAC of the challenge that this
\* login() fetched itself, whatever the other handlers do meanwhile.
C3_PasswordFromOwnChallenge ==
  \A p \in AProcs :
    proc[p].pc = "openSession" =>
      Get(proc[p].req).password = computePassword(proc[p].fetched)

\* C4: login() called while no application token is held fails without a
\* request to the appliance and leaves the manager and the appliance as
\* they were.
C4_LoginWithoutToken ==
  [][\A p \in AProcs :
       (loginCall(p) /\ appToken \in {None, Undefined}) =>
          /\ proc'[p].pc = "done"
          /\ proc'[p].ret.op = "login" /\ ~proc'[p].ret.ok
          /\ proc'[p].ret.nreq = 0
          /\ proc'[p].req = None
          /\ UNCHANGED <<appToken, sessionToken, challenge, permissions, tokenFile, box>>]_vars

C4_Witness ==
  \E p \in AProcs :
    /\ appToken \in {None, Undefined}
    /\ proc[p].pc = "done"
    /\ proc[p].ret.op = "login" /\ ~proc[p].ret.ok
    /\ proc[p].ret.error = "no_app_token" /\ proc[p].ret.nreq = 0

\* C5: when login() returns successfully isLoggedIn() is true and the
\* session token and the permissions are the two fields of the response of
\* that login(); the permissions held with a session token are the ones the
\* appliance granted to that session.
C5_TokenAndPermissionsTogether ==
  /\ [](isLoggedIn =>
          \E s \in SessionIds : /\ sessionToken = SessionTokenOf(s)
                                /\ getPermissions = permissionsGranted(s))
  /\ [][\A p \in AProcs :
          (awaits(p, "openSession") /\ proc'[p].pc = "done" /\ proc'[p].ret.ok) =>
             /\ proc[p].resp # None
             /\ isLoggedIn'
             /\ sessionToken' = Get(proc[p].resp).session_token
             /\ getPermissions' = Get(proc[p].resp).permissions]_vars

C5_Witness ==
  \E p \in AProcs :
    /\ proc[p].pc = "done" /\ proc[p].ret.op = "login" /\ proc[p].ret.ok
    /\ sessionToken = SessionTokenOf(2)
    /\ proc[p].ret.token = sessionToken
    /\ getPermissions = permissionsGranted(2)

\* C6: when an authenticated call sent with the session token that is held
\* is refused by the appliance because the session is no longer valid, the
\* manager is logged out.
C6_ExpiredSessionLogsOut ==
  [][\A p \in AProcs :
       ( /\ awaits(p, "getSystemInfo")
         /\ proc'[p].pc = "done"
         /\ proc'[p].ret.error = "auth_required"
         /\ isLoggedIn
         /\ Get(proc[p].req).auth = sessionToken ) => ~isLoggedIn']_vars

\* C7: no request marked authenticated is on the network without a session
\* token.
C7_NoRequestWithoutToken ==
  \A p \in AProcs :
    (proc[p].req # None /\ Get(proc[p].req).authenticated) => Get(proc[p].req).auth # None

\* C8: logout() with a session token held makes exactly one session-close
\* call carrying it, and whatever that call resolves to the token is cleared
\* and logout() returns normally (unless the process is restarted under
\* it); with no token held it returns without a request.
C8_Logout ==
  [][\A p \in AProcs :
       /\ (logoutCall(p) /\ isLoggedIn) =>
             /\ proc'[p].pc = "logout" /\ proc'[p].nreq = 1
             /\ Get(proc'[p].req).endpoint = "logout"
             /\ Get(proc'[p].req).auth = sessionToken
             /\ sessionToken' = sessionToken
       /\ (logoutCall(p) /\ ~isLoggedIn) =>
             /\ proc'[p].pc = "done" /\ proc'[p].ret.ok /\ proc'[p].ret.nreq = 0
             /\ proc'[p].req = None
       /\ (proc[p].pc = "logout" /\ proc'[p].pc # "logout" /\ ~Restart) =>
             /\ proc'[p].pc = "done" /\ proc'[p].ret.op = "logout"
             /\ proc'[p].ret.ok /\ proc'[p].ret.nreq = 1
             /\ ~isLoggedIn']_vars

\* logout() has returned after a session-close call that did not close the
\* session on the appliance
C8_Witness ==
  \E p \in AProcs, s \in box.sessions :
    /\ proc[p].pc = "done" /\ proc[p].ret.op = "logout"
    /\ proc[p].ret.ok /\ proc[p].ret.nreq = 1
    /\ ~isLoggedIn
    /\ box.nsess = 1

\* C9: in the scenario register, status pending three times then granted,
\* login, checkSession, logout, checkSession: login succeeds, the first
\* checkSession returns true, logout returns normally and the second
\* checkSession returns false.
C9_EndToEnd == e2e.stage # "bad"

C9_Witness == e2e.stage = "checkedFalse"

\* C10: once register() has returned a token, the token file holds it, the
\* manager holds it and isRegistered() is true, also after the process was
\* restarted and loaded the file; when the write fails the token is not
\* assigned.
C10_PersistenceRoundTrip ==
  /\ [](persisted.token # None =>
          /\ tokenFile.exists
          /\ loadToken(tokenFile, None) = persisted.token
          /\ appToken = persisted.token
          /\ isRegistered)
  /\ [][\A p \in AProcs :
          (awaits(p, "register") /\ proc'[p].pc = "done" /\ proc'[p].ret.error = "write_failed")
             => appToken' = appToken]_vars

C10_Witness ==
  /\ persisted.token = AppTokenOf(1)
  /\ persisted.restarted
  /\ appToken = persisted.token
  /\ isRegistered

\* the token file holds a token under the appToken field
holdsToken(file) ==
  /\ file.exists
  /\ ~parseAppToken(file.text).threw
  /\ Truthy(parseAppToken(file.text).appToken)

\* C11: while the registration whose token the manager holds is pending,
\* denied or timed out, the manager is not registered.
C11_NotRegisteredUntilGranted ==
  \A k \in RegIds :
    (appToken = AppTokenOf(k) /\ box.status[k] # "granted") => ~isRegistered

\* C12: with a token file that is absent, unreadable, not JSON or without a
\* token under appToken, and no register() since, the manager is not
\* registered.
C12_NoTokenLoaded ==
  (~holdsToken(tokenFile) /\ appToken = loadToken(tokenFile, None)) => ~isRegistered


\* POST /api/wifi/wps/start forwards to the appliance when the manager
\* holds the settings permission
wpsStartForwards == "settings" \in getPermissions

\* C28: with no session token held, getPermissions() is empty, and
\* POST /api/wifi/wps/start does not forward to the appliance.
C28_NoPermissionsWithoutSession ==
  ~isLoggedIn => (getPermissions = {} /\ ~wpsStartForwards)

\* C29: a session stored by a login() that completed while a logout() was
\* awaiting the appliance is still held when that logout() finishes.
C29_LogoutKeepsNewerSession ==
  [][\A p \in AProcs :
       (awaits(p, "logout") /\ proc'[p].pc = "done"
          /\ isLoggedIn /\ sessionToken # Get(proc[p].req).auth) =>
       (sessionToken' = sessionToken /\ isLoggedIn')]_vars

====
